---- MODULE Spec2Model ----
(***************************************************************************)
(* q2_chemistree/_fingerprint.py: the three SIRIUS stage functions, the    *)
(* artifact factory they share and the process runner.                     *)
(*                                                                         *)
(* Representation.  A Python str is a sequence of tokens (TLA+ strings);   *)
(* "/" and " " are tokens of their own, so that os.path.join and the       *)
(* concatenation of _JAVA_OPTIONS are computed, not assumed.  An optional  *)
(* value (None or a value) is a sequence of length 0 or 1.  os.environ is  *)
(* a function whose domain holds the variables that are set.               *)
(***************************************************************************)
EXTENDS Integers, Sequences, FiniteSets, TLC

VARIABLES
    environ,     \* os.environ of the calling process
    fs,          \* the directories that exist (what os.path.exists reads)
    files,       \* the files opened for writing so far
    next_id,     \* the number of result handles constructed so far
    frames,      \* per thread: the locals of the stage call it is in
    log,         \* history: one summary per finished stage call, in order
    overlapped,  \* history: some call started while another was in flight
    env0,        \* history: os.environ before the first call
    callers      \* the threads of the process that call the stage functions

vars == <<environ, fs, files, next_id, frames, log, overlapped, env0,
          callers>>

---------------------------------------------------------------------------
(* Bounds of the model *)

\* at most this many stage calls are started in a behaviour
MaxCalls == 2

Threads == {"t1", "t2"}
\* the statuses the child exits with: success, and two failures
ExitCodes == {0, 1, 2}

---------------------------------------------------------------------------
(* Values *)

None == <<>>
Some(v) == <<v>>
IsNone(o) == o = <<>>
Val(o) == o[1]

JAVA_OPTIONS == "_JAVA_OPTIONS"

\* the tool directory, written with and without a trailing separator
ToolDir == <<"/", "opt", "/", "sirius-dir">>
SiriusPaths == {ToolDir, ToolDir \o <<"/">>}

\* values of java_flags: None or a string of JVM flags
FlagF == <<"-Xmx4g">>
FlagG == <<"-Xss1m">>
JavaFlags == {None, Some(FlagF), Some(FlagG)}

\* values of _JAVA_OPTIONS before the first call: unset, or set
EnvUnset == [k \in {} |-> <<>>]
EnvSet(v) == [k \in {JAVA_OPTIONS} |-> v]
InitialEnvs == {EnvUnset, EnvSet(<<"-Dfoo=bar">>)}

\* values of ionization_mode; "both" is none of the three the code handles
IonizationModes == {<<"auto">>, <<"positive">>, <<"negative">>, <<"both">>}
RecognizedModes == {<<"auto">>, <<"positive">>, <<"negative">>}

PpmMaxValues == {10}
Profiles == {<<"orbitrap">>}
NJobsValues == {2}

\* the defaults of the stage functions' optional parameters
DefaultTreeTimeout == 1600
DefaultMaxMz == 600
DefaultNumCandidates == 75
DefaultDatabase == <<"all">>
DefaultFingeridDb == <<"pubchem">>
\* zodiac_threshold, a float, as its two decimals: 0.95
DefaultZodiacThreshold == 95
InitialCompoundBuffer == 1
MaxCompoundBuffer == 32

---------------------------------------------------------------------------
(* Library functions the code calls *)

\* str(n) for an int
Str(n) == <<ToString(n)>>

\* str(x) for a float 0 < x < 1 given as its two decimals d (d % 10 # 0)
StrFloat(d) == <<"0." \o ToString(d)>>

\* os.path.join(a, b)
os_path_join(a, b) ==
    IF b # <<>> /\ b[1] = "/" THEN b
    ELSE IF a = <<>> \/ a[Len(a)] = "/" THEN a \o b
    ELSE a \o <<"/">> \o b

\* a path without its trailing separators (the root keeps its own)
RECURSIVE StripSep(_)
StripSep(p) ==
    IF Len(p) > 1 /\ p[Len(p)] = "/" THEN StripSep(SubSeq(p, 1, Len(p) - 1))
    ELSE p

\* os.path.exists(p) on the file system d
os_path_exists(d, p) == p # <<>> /\ StripSep(p) \in d

\* os.environ.get(k, default)
environ_get(env, k, default) == IF k \in DOMAIN env THEN env[k] ELSE default

\* os.environ[k] = v
environ_set(env, k, v) ==
    [x \in DOMAIN env \cup {k} |-> IF x = k THEN v ELSE env[x]]

---------------------------------------------------------------------------
(* Result handles: MGFDirFmt, SiriusDirFmt, ZodiacDirFmt, CSIDirFmt *)

Handle(fmt, id) == [fmt |-> fmt, id |-> id]

\* handle.path: the directory the handle stands for
path(h) == <<"/", "tmp", "/", h.fmt \o "-" \o ToString(h.id)>>

\* handle.get_path(): the root path the tool writes into
get_path(h) == path(h)

\* the artifacts the stage functions are given as inputs
Features == Handle("MGFDirFmt", 0)
FragmentationTrees == Handle("SiriusDirFmt", 0)
MolecularFormulas == Handle("ZodiacDirFmt", 0)

---------------------------------------------------------------------------
(* The locals of one stage call *)

IdleFrame ==
    [pc |-> "idle", stage |-> "", ionization_mode |-> None,
     ionization_flag |-> None, sirius_path |-> <<>>, parameters |-> <<>>,
     java_flags |-> None, constructor |-> "", artifact |-> None,
     found |-> None, sirius |-> <<>>, initial_flags |-> None,
     child |-> None, exc |-> None, retval |-> None,
     env_entry |-> EnvUnset, nspawn |-> 0, nwrites |-> 0]

InFlight(t) == frames[t].pc # "idle"
CallsStarted == Len(log) + Cardinality({t \in Threads : InFlight(t)})

OSError == [type |-> "OSError", returncode |-> None]
CalledProcessError(rc) == [type |-> "CalledProcessError", returncode |-> Some(rc)]

---------------------------------------------------------------------------
(* The stage functions: the parameter lists *)

\* the if/elif over ionization_mode: no branch, and the local stays unbound
ionization_flag(ionization_mode) ==
    IF ionization_mode \in {<<"auto">>, <<"positive">>} THEN Some(<<"--auto-charge">>)
    ELSE IF ionization_mode = <<"negative">> THEN Some(<<"--ion=[M-H]-">>)
    ELSE None

\* mutant: the ionization flag is put in the list, and reading the unbound
\* local fails
trees_params_with_flag(a) ==
    LET flag == ionization_flag(a.ionization_mode) IN
    << <<"--quiet">>,
       <<"--initial-compound-buffer">>, Str(InitialCompoundBuffer),
       <<"--max-compound-buffer">>, Str(MaxCompoundBuffer),
       <<"--profile">>, a.profile,
       <<"--database">>, a.database,
       <<"--candidates">>, Str(a.num_candidates),
       <<"--processors">>, Str(a.n_jobs),
       <<"--trust-ion-prediction">>,
       IF IsNone(flag) THEN <<"UnboundLocalError">> ELSE Val(flag),
       <<"--maxmz">>, Str(a.maxmz),
       <<"--tree-timeout">>, Str(a.tree_timeout),
       <<"--ppm-max">>, Str(a.ppm_max),
       os_path_join(path(a.features), <<"features.mgf">>) >>

\* params of compute_fragmentation_trees; it does not read ionization_flag
trees_params(a) ==
    << <<"--quiet">>,
       <<"--initial-compound-buffer">>, Str(InitialCompoundBuffer),
       <<"--max-compound-buffer">>, Str(MaxCompoundBuffer),
       <<"--profile">>, a.profile,
       <<"--database">>, a.database,
       <<"--candidates">>, Str(a.num_candidates),
       <<"--processors">>, Str(a.n_jobs),
       <<"--trust-ion-prediction">>,
       <<"--maxmz">>, Str(a.maxmz),
       <<"--tree-timeout">>, Str(a.tree_timeout),
       <<"--ppm-max">>, Str(a.ppm_max),
       os_path_join(path(a.features), <<"features.mgf">>) >>

\* params of rerank_molecular_formulas
rerank_params(a) ==
    << <<"--zodiac">>, <<"--sirius">>, get_path(a.fragmentation_trees),
       <<"--thresholdfilter">>, StrFloat(a.zodiac_threshold),
       <<"--processors">>, Str(a.n_jobs),
       <<"--spectra">>, os_path_join(path(a.features), <<"features.mgf">>) >>

\* params of predict_fingerprints
predict_params(a) ==
    << <<"--processors">>, Str(a.n_jobs), <<"--fingerid">>,
       <<"--fingerid-db">>, a.fingerid_db, <<"--ppm-max">>, Str(a.ppm_max),
       get_path(a.molecular_formulas) >>

\* the arguments the stage functions are called with
TreesArgs ==
    [sirius_path : SiriusPaths, features : {Features}, ppm_max : PpmMaxValues,
     profile : Profiles, tree_timeout : {DefaultTreeTimeout},
     maxmz : {DefaultMaxMz}, n_jobs : NJobsValues,
     num_candidates : {DefaultNumCandidates}, database : {DefaultDatabase},
     ionization_mode : IonizationModes, java_flags : JavaFlags]

RerankArgs ==
    [sirius_path : SiriusPaths, fragmentation_trees : {FragmentationTrees},
     features : {Features}, zodiac_threshold : {DefaultZodiacThreshold},
     n_jobs : NJobsValues, java_flags : JavaFlags]

PredictArgs ==
    [sirius_path : SiriusPaths, molecular_formulas : {MolecularFormulas},
     ppm_max : PpmMaxValues, n_jobs : NJobsValues,
     fingerid_db : {DefaultFingeridDb}, java_flags : JavaFlags]

---------------------------------------------------------------------------
(* Steps *)

SetFrame(t, f) == frames' = [frames EXCEPT ![t] = f]

\* a call overlaps another only in the threaded specification; there each
\* thread makes one call, and the arguments that never reach os.environ are
\* drawn from one value each
Threaded == Cardinality(callers) > 1
HasCalled(t) == \E i \in 1..Len(log) : log[i].thread = t

\* a stage function calls artifactory(sirius_path, parameters, java_flags,
\* constructor), whose first statement is artifact = constructor()
CallArtifactory(t, stage, mode, flag, sirius_path, parameters, java_flags, constructor) ==
    /\ t \in callers
    /\ ~InFlight(t)
    /\ CallsStarted < MaxCalls
    /\ Threaded => /\ ~HasCalled(t)
                    /\ sirius_path = ToolDir
                    /\ mode \in {None, Some(<<"auto">>)}
    /\ next_id' = next_id + 1
    /\ SetFrame(t, [IdleFrame EXCEPT
            !.pc = "exists", !.stage = stage, !.ionization_mode = mode,
            !.ionization_flag = flag, !.sirius_path = sirius_path,
            !.parameters = parameters, !.java_flags = java_flags,
            !.constructor = constructor, !.env_entry = environ,
            !.artifact = Some(Handle(constructor, next_id + 1))])
    /\ overlapped' = (overlapped \/ \E u \in Threads \ {t} : InFlight(u))
    /\ UNCHANGED <<environ, fs, files, log, env0, callers>>

compute_fragmentation_trees(t) ==
    \E a \in TreesArgs :
        CallArtifactory(t, "compute_fragmentation_trees",
                        Some(a.ionization_mode),
                        ionization_flag(a.ionization_mode),
                        a.sirius_path, trees_params(a), a.java_flags,
                        "SiriusDirFmt")

rerank_molecular_formulas(t) ==
    \E a \in RerankArgs :
        CallArtifactory(t, "rerank_molecular_formulas", None, None,
                        a.sirius_path, rerank_params(a), a.java_flags,
                        "ZodiacDirFmt")

predict_fingerprints(t) ==
    \E a \in PredictArgs :
        CallArtifactory(t, "predict_fingerprints", None, None,
                        a.sirius_path, predict_params(a), a.java_flags,
                        "CSIDirFmt")

\* mutant: the result of an earlier call's check is reused
CheckExistsCached(t) ==
    LET f == frames[t]
        ok == \/ os_path_exists(fs, f.sirius_path)
              \/ \E i \in 1..Len(log) : log[i].returned
    IN  /\ f.pc = "exists"
        /\ IF ok
           THEN SetFrame(t, [f EXCEPT
                    !.pc = "get_env", !.found = Some(TRUE),
                    !.sirius = os_path_join(f.sirius_path, <<"sirius">>)])
           ELSE SetFrame(t, [f EXCEPT
                    !.pc = "raise", !.found = Some(FALSE),
                    !.exc = Some(OSError)])
        /\ UNCHANGED <<environ, fs, files, next_id, log, overlapped, env0,
                       callers>>

\* if not os.path.exists(sirius_path): raise OSError; sirius = join(...)
CheckExists(t) ==
    LET f == frames[t]
        ok == os_path_exists(fs, f.sirius_path)
    IN  /\ f.pc = "exists"
        /\ IF ok
           THEN SetFrame(t, [f EXCEPT
                    !.pc = "get_env", !.found = Some(TRUE),
                    !.sirius = os_path_join(f.sirius_path, <<"sirius">>)])
           ELSE SetFrame(t, [f EXCEPT
                    !.pc = "raise", !.found = Some(FALSE),
                    !.exc = Some(OSError)])
        /\ UNCHANGED <<environ, fs, files, next_id, log, overlapped, env0, callers>>

\* mutant: the variable is read under another name, so the default is used
ReadEnvDefault(t) ==
    /\ frames[t].pc = "get_env"
    /\ SetFrame(t, [frames[t] EXCEPT
            !.pc = "set_env", !.initial_flags = Some(<<>>)])
    /\ UNCHANGED <<environ, fs, files, next_id, log, overlapped, env0,
                   callers>>

\* initial_flags = os.environ.get('_JAVA_OPTIONS', '')
ReadEnv(t) ==
    /\ frames[t].pc = "get_env"
    /\ SetFrame(t, [frames[t] EXCEPT
            !.pc = "set_env",
            !.initial_flags = Some(environ_get(environ, JAVA_OPTIONS, <<>>))])
    /\ UNCHANGED <<environ, fs, files, next_id, log, overlapped, env0, callers>>

\* if java_flags is not None: os.environ['_JAVA_OPTIONS'] = initial_flags +
\* ' ' + java_flags
SetEnv(t) ==
    LET f == frames[t]
        set == ~IsNone(f.java_flags)
    IN  /\ f.pc = "set_env"
        /\ environ' =
             IF set
             THEN environ_set(environ, JAVA_OPTIONS,
                      Val(f.initial_flags) \o <<" ">> \o Val(f.java_flags))
             ELSE environ
        /\ SetFrame(t, [f EXCEPT
                !.pc = "run",
                !.nwrites = IF set THEN @ + 1 ELSE @])
        /\ UNCHANGED <<fs, files, next_id, log, overlapped, env0, callers>>

\* mutant: the parameters are put before the output option
cmdsir_params_first(f) ==
    <<f.sirius>> \o f.parameters \o <<<<"-o">>, get_path(Val(f.artifact))>>

\* cmdsir = [sirius, '-o', artifact.get_path()] + parameters
cmdsir(f) == <<f.sirius, <<"-o">>, get_path(Val(f.artifact))>> \o f.parameters

\* os.path.join(str(artifact.path), 'stdout.txt')
output_fp(f) == os_path_join(path(Val(f.artifact)), <<"stdout.txt">>)

\* run_command(cmdsir, output_fp): open(output_fp, 'w'), then subprocess.run
\* starts the child, which inherits os.environ as it is at that moment.  The
\* notice printed when verbose is set changes nothing that is modelled here;
\* a launcher missing from an existing tool directory is not modelled.
RunCommand(t) ==
    /\ frames[t].pc = "run"
    /\ files' = files \cup {output_fp(frames[t])}
    /\ SetFrame(t, [frames[t] EXCEPT
            !.pc = "wait",
            !.nspawn = @ + 1,
            !.child = Some([cmd |-> cmdsir(frames[t]),
                            stdout |-> output_fp(frames[t]),
                            env |-> environ,
                            returncode |-> None])])
    /\ UNCHANGED <<environ, fs, next_id, log, overlapped, env0,
                   callers>>

\* mutant: subprocess.run without check=True
ChildExitUnchecked(t) ==
    LET f == frames[t] IN
    /\ f.pc = "wait"
    /\ \E rc \in ExitCodes :
         SetFrame(t, [f EXCEPT
             !.pc = "restore",
             !.child = Some([Val(f.child) EXCEPT !.returncode = Some(rc)])])
    /\ UNCHANGED <<environ, fs, files, next_id, log, overlapped, env0, callers>>

\* mutant: the variable is restored on the failure path too (try/finally)
ChildExitRestoring(t) ==
    LET f == frames[t] IN
    /\ f.pc = "wait"
    /\ \E rc \in ExitCodes :
         LET done == Some([Val(f.child) EXCEPT !.returncode = Some(rc)]) IN
         IF rc # 0
         THEN /\ SetFrame(t, [f EXCEPT !.pc = "raise", !.child = done,
                                       !.exc = Some(CalledProcessError(rc))])
              /\ environ' = IF IsNone(f.java_flags) THEN environ
                            ELSE environ_set(environ, JAVA_OPTIONS,
                                             Val(f.initial_flags))
         ELSE /\ SetFrame(t, [f EXCEPT !.pc = "restore", !.child = done])
              /\ environ' = environ
    /\ UNCHANGED <<fs, files, next_id, log, overlapped, env0, callers>>

\* run_command: the child exits; check=True raises on a nonzero status
ChildExit(t) ==
    LET f == frames[t] IN
    /\ f.pc = "wait"
    /\ \E rc \in ExitCodes :
         LET done == Some([Val(f.child) EXCEPT !.returncode = Some(rc)]) IN
         IF rc # 0
         THEN SetFrame(t, [f EXCEPT !.pc = "raise", !.child = done,
                                    !.exc = Some(CalledProcessError(rc))])
         ELSE SetFrame(t, [f EXCEPT !.pc = "restore", !.child = done])
    /\ UNCHANGED <<environ, fs, files, next_id, log, overlapped, env0, callers>>

\* mutant: the variable is not restored
RestoreSkipped(t) ==
    /\ frames[t].pc = "restore"
    /\ SetFrame(t, [frames[t] EXCEPT !.pc = "return",
                                     !.retval = frames[t].artifact])
    /\ UNCHANGED <<environ, fs, files, next_id, log, overlapped, env0, callers>>

\* mutant: a variable that was not set before the call is deleted again
RestoreUnsetAware(t) ==
    LET f == frames[t]
        set == ~IsNone(f.java_flags)
    IN  /\ f.pc = "restore"
        /\ environ' =
             IF ~set THEN environ
             ELSE IF JAVA_OPTIONS \in DOMAIN f.env_entry
             THEN environ_set(environ, JAVA_OPTIONS, Val(f.initial_flags))
             ELSE [x \in DOMAIN environ \ {JAVA_OPTIONS} |-> environ[x]]
        /\ SetFrame(t, [f EXCEPT !.pc = "return", !.retval = f.artifact,
                                 !.nwrites = IF set THEN @ + 1 ELSE @])
        /\ UNCHANGED <<fs, files, next_id, log, overlapped, env0, callers>>

\* if java_flags is not None: os.environ['_JAVA_OPTIONS'] = initial_flags;
\* return artifact
Restore(t) ==
    LET f == frames[t]
        set == ~IsNone(f.java_flags)
    IN  /\ f.pc = "restore"
        /\ environ' =
             IF set
             THEN environ_set(environ, JAVA_OPTIONS, Val(f.initial_flags))
             ELSE environ
        /\ SetFrame(t, [f EXCEPT !.pc = "return", !.retval = f.artifact,
                                 !.nwrites = IF set THEN @ + 1 ELSE @])
        /\ UNCHANGED <<fs, files, next_id, log, overlapped, env0, callers>>

\* what the history keeps of a finished call
Summary(t, f) ==
    [thread |-> t, java_flags |-> f.java_flags, exc |-> f.exc,
     returned |-> ~IsNone(f.retval),
     env_entry |-> f.env_entry, initial_flags |-> f.initial_flags,
     child_env |-> IF IsNone(f.child) THEN None ELSE Some(Val(f.child).env),
     returncode |-> IF IsNone(f.child) THEN None ELSE Val(f.child).returncode,
     nspawn |-> f.nspawn, env_exit |-> environ]

\* the stage function's `return artifactory(...)`: the handle, or the
\* exception, reaches the stage function's caller
StageReturn(t) ==
    /\ frames[t].pc \in {"return", "raise"}
    /\ log' = Append(log, Summary(t, frames[t]))
    /\ SetFrame(t, IdleFrame)
    /\ UNCHANGED <<environ, fs, files, next_id, overlapped, env0, callers>>

\* the environment of the program: the tool is removed or installed
RemoveTool ==
    /\ ToolDir \in fs
    /\ fs' = fs \ {ToolDir}
    /\ UNCHANGED <<environ, files, next_id, frames, log, overlapped, env0, callers>>

InstallTool ==
    /\ ToolDir \notin fs
    /\ fs' = fs \cup {ToolDir}
    /\ UNCHANGED <<environ, files, next_id, frames, log, overlapped, env0, callers>>

---------------------------------------------------------------------------
(* The specification *)

InitState ==
    /\ environ \in InitialEnvs
    /\ env0 = environ
    /\ fs \in {{}, {ToolDir}}
    /\ files = {}
    /\ next_id = 0
    /\ frames = [t \in Threads |-> IdleFrame]
    /\ log = <<>>
    /\ overlapped = FALSE

\* the program as written: one thread calls the stage functions
Init == InitState /\ callers = {"t1"}

\* two threads of the process call the stage functions
InitThreads == InitState /\ callers = Threads

Next ==
    \/ \E t \in Threads : compute_fragmentation_trees(t)
    \/ \E t \in Threads : rerank_molecular_formulas(t)
    \/ \E t \in Threads : predict_fingerprints(t)
    \/ \E t \in Threads : CheckExists(t)
    \/ \E t \in Threads : ReadEnv(t)
    \/ \E t \in Threads : SetEnv(t)
    \/ \E t \in Threads : RunCommand(t)
    \/ \E t \in Threads : ChildExit(t)
    \/ \E t \in Threads : Restore(t)
    \/ \E t \in Threads : StageReturn(t)
    \/ RemoveTool
    \/ InstallTool

Spec == Init /\ [][Next]_vars

SpecThreads == InitThreads /\ [][Next]_vars

---------------------------------------------------------------------------
(* Properties *)

\* the value of _JAVA_OPTIONS as the code reads it: '' when it is not set
JavaOptions(env) == environ_get(env, JAVA_OPTIONS, <<>>)
HasJavaOptions(env) == JAVA_OPTIONS \in DOMAIN env
HasToken(s, tok) == \E i \in 1..Len(s) : s[i] = tok
HasFlags(x) == ~IsNone(x.java_flags)
Failed(e) == ~IsNone(e.exc) /\ Val(e.exc).type = "CalledProcessError"
Quiescent == \A t \in Threads : ~InFlight(t)
AllReturned == \A i \in 1..Len(log) : log[i].returned

\* a path with runs of separators collapsed to one
RECURSIVE CollapseSep(_)
CollapseSep(p) ==
    IF Len(p) < 2 THEN p
    ELSE IF p[1] = "/" /\ p[2] = "/" THEN CollapseSep(Tail(p))
    ELSE <<p[1]>> \o CollapseSep(Tail(p))

\* C1: a call whose existence check runs while the executable root does not
\* exist raises OSError at that step; it has spawned no child and has not
\* written os.environ, which is as it was when the call started; this holds
\* whatever earlier calls found.
C1_ToolNotFound ==
    [][\A t \in Threads :
         (/\ frames[t].pc = "exists"
          /\ frames'[t] # frames[t]
          /\ ~os_path_exists(fs, frames[t].sirius_path))
         => /\ frames'[t].pc = "raise"
            /\ frames'[t].exc = Some(OSError)
            /\ frames'[t].nspawn = 0
            /\ frames'[t].nwrites = 0
            /\ IsNone(frames'[t].child)
            /\ environ' = environ
            /\ environ = frames[t].env_entry]_vars

\* a call raised OSError after an earlier call had found the tool and returned
C1_Witness ==
    \E t \in Threads :
        /\ frames[t].pc = "raise"
        /\ frames[t].exc = Some(OSError)
        /\ Len(log) >= 1
        /\ log[1].returned

\* C2: a child that exits nonzero makes the call raise CalledProcessError
\* with that status after one spawn, and the caller gets that exception and
\* no handle; a child that exits 0 raises nothing and the handle is returned.
C2_ExecutionFailure ==
    /\ \A t \in Threads :
         LET f == frames[t] IN
         (~IsNone(f.child) /\ ~IsNone(Val(f.child).returncode)) =>
             LET rc == Val(Val(f.child).returncode) IN
             IF rc # 0
             THEN /\ f.pc = "raise"
                  /\ f.exc = Some(CalledProcessError(rc))
                  /\ f.nspawn = 1
                  /\ IsNone(f.retval)
             ELSE /\ f.pc \in {"restore", "return"}
                  /\ IsNone(f.exc)
                  /\ f.nspawn = 1
                  /\ f.pc = "return" => f.retval = f.artifact
    /\ \A i \in 1..Len(log) :
         LET e == log[i] IN
         ~IsNone(e.returncode) =>
             IF Val(e.returncode) # 0
             THEN /\ e.exc = Some(CalledProcessError(Val(e.returncode)))
                  /\ ~e.returned
                  /\ e.nspawn = 1
             ELSE IsNone(e.exc) /\ e.returned /\ e.nspawn = 1

\* the caller got CalledProcessError(2), and another caller got a handle
C2_Witness ==
    /\ Len(log) = 2
    /\ log[1].exc = Some(CalledProcessError(2))
    /\ log[2].returned

\* C3: a call with flags F started with _JAVA_OPTIONS set to V keeps the
\* variable at V + ' ' + F from before the spawn until the child has exited,
\* the child inherits that value, and the variable is V again on return;
\* when every call so far has returned, the variable is what it was before
\* the first call.
C3_RestoredOnSuccess ==
    /\ \A t \in Threads :
         LET f == frames[t] IN
         (HasFlags(f) /\ HasJavaOptions(f.env_entry)) =>
             LET V == f.env_entry[JAVA_OPTIONS]
                 VF == EnvSet(V \o <<" ">> \o Val(f.java_flags))
             IN  /\ f.pc \in {"run", "wait", "restore"} => environ = VF
                 /\ ~IsNone(f.child) => Val(f.child).env = VF
                 /\ f.pc = "return" => environ = EnvSet(V)
    /\ (HasJavaOptions(env0) /\ AllReturned /\
        \A t \in Threads : frames[t].pc \in {"idle", "return"})
       => environ = env0

\* two calls, one of them with flags, have returned; the variable was set
C3_Witness ==
    /\ Quiescent
    /\ Len(log) = 2
    /\ AllReturned
    /\ HasJavaOptions(env0)
    /\ log[1].java_flags = Some(FlagF)
    /\ log[1].child_env = Some(EnvSet(env0[JAVA_OPTIONS] \o <<" ">> \o FlagF))
    /\ environ = env0

\* C4: the child's command is <sirius_path>/sirius, -o, the root path of the
\* handle this call constructed, then the parameters in order; its standard
\* output goes to stdout.txt in that handle's directory, which exists as a
\* file; and the call returns that handle.
C4_Command ==
    \A t \in Threads :
        LET f == frames[t] IN
        ~IsNone(f.child) =>
            LET c == Val(f.child)
                h == Val(f.artifact)
            IN  /\ Len(c.cmd) = 3 + Len(f.parameters)
                /\ CollapseSep(c.cmd[1]) =
                     CollapseSep(f.sirius_path \o <<"/", "sirius">>)
                /\ c.cmd[2] = <<"-o">>
                /\ c.cmd[3] = get_path(h)
                /\ SubSeq(c.cmd, 4, Len(c.cmd)) = f.parameters
                /\ c.stdout = path(h) \o <<"/", "stdout.txt">>
                /\ c.stdout \in files
                /\ h = Handle(f.constructor, next_id)
                /\ h \notin {Features, FragmentationTrees, MolecularFormulas}
                /\ f.pc = "return" => f.retval = Some(h)

\* a call given the tool directory with a trailing separator has returned
C4_Witness ==
    \E t \in Threads :
        /\ frames[t].pc = "return"
        /\ frames[t].sirius_path = ToolDir \o <<"/">>
        /\ frames[t].stage = "rerank_molecular_formulas"
        /\ Val(frames[t].child).cmd[1] = ToolDir \o <<"/", "sirius">>

\* C5: the tool started by compute_fragmentation_trees is given
\* --auto-charge for the modes auto and positive, and --ion=[M-H]- for the
\* mode negative.
C5_IonizationFlagPassed ==
    \A t \in Threads :
        LET f == frames[t] IN
        (f.stage = "compute_fragmentation_trees" /\ ~IsNone(f.child)) =>
            LET cmd == Val(f.child).cmd
                mode == Val(f.ionization_mode)
            IN  /\ mode \in {<<"auto">>, <<"positive">>}
                      => HasToken(cmd, <<"--auto-charge">>)
                /\ mode = <<"negative">> => HasToken(cmd, <<"--ion=[M-H]-">>)

\* what a failed call with flags leaves in the variable
Leak(e) == JavaOptions(e.env_entry) \o <<" ">> \o Val(e.java_flags)

\* C6: a call with flags F whose child exits nonzero leaves the variable at
\* the pre-call value + ' ' + F; the next call reads that as its original,
\* with flags G its child gets pre-call value + ' ' + F + ' ' + G, and when
\* it returns the variable is the leaked value, not the value from before
\* the failed call.
C6_LeakOnFailure ==
    /\ \A t \in Threads :
         LET f == frames[t] IN
         (f.pc = "raise" /\ HasFlags(f) /\ Failed(f)) =>
             environ = EnvSet(Leak(f))
    /\ \A i \in 1..Len(log) :
         LET e == log[i] IN
         (HasFlags(e) /\ Failed(e)) =>
             /\ e.env_exit = EnvSet(Leak(e))
             /\ i < Len(log) =>
                  LET n == log[i + 1] IN
                  /\ n.env_entry = EnvSet(Leak(e))
                  /\ ~IsNone(n.initial_flags) => Val(n.initial_flags) = Leak(e)
                  /\ (HasFlags(n) /\ ~IsNone(n.child_env)) =>
                       Val(n.child_env) =
                         EnvSet(Leak(e) \o <<" ">> \o Val(n.java_flags))
                  /\ n.returned =>
                       /\ n.env_exit = EnvSet(Leak(e))
                       /\ JavaOptions(n.env_exit) # JavaOptions(e.env_entry)

\* a call with flags F failed, and the next call, with flags G, returned
C6_Witness ==
    /\ Len(log) = 2
    /\ log[1].java_flags = Some(FlagF)
    /\ Failed(log[1])
    /\ log[2].java_flags = Some(FlagG)
    /\ log[2].returned
    /\ JavaOptions(Val(log[2].child_env)) =
         JavaOptions(env0) \o <<" ">> \o FlagF \o <<" ">> \o FlagG
    /\ JavaOptions(environ) = JavaOptions(env0) \o <<" ">> \o FlagF

\* call i's child ran with the flags of another call, which are not its own
Foreign(i) ==
    \E j \in 1..Len(log) :
        /\ j # i
        /\ HasFlags(log[j])
        /\ log[j].java_flags # log[i].java_flags
        /\ ~IsNone(log[i].child_env)
        /\ HasToken(JavaOptions(Val(log[i].child_env)), Val(log[j].java_flags)[1])

\* every call has returned, and yet the variable's value is not the one from
\* before the calls, or a child ran with another call's flags
Raced ==
    /\ Quiescent
    /\ AllReturned
    /\ \/ JavaOptions(environ) # JavaOptions(env0)
       \/ \E i \in 1..Len(log) : Foreign(i)

\* C7: with two threads, a state in which every call has returned and the
\* variable's value differs from the one before the calls, or a child ran
\* with another call's flags, is reached only when calls overlapped.
C7_RaceNeedsOverlap == Raced => overlapped

\* both calls returned, the variable's value differs from the one before
\* them, and a child ran with the other call's flags
C7_Witness ==
    /\ Quiescent
    /\ Len(log) = 2
    /\ AllReturned
    /\ JavaOptions(environ) # JavaOptions(env0)
    /\ \E i \in 1..Len(log) : Foreign(i)

\* C8: when the tool-not-found error is raised, the result-handle
\* constructor has not been called.
C8_CheckBeforeConstruct ==
    \A t \in Threads :
        frames[t].exc = Some(OSError) => IsNone(frames[t].artifact)

\* the lists compute_fragmentation_trees builds for the recognized modes
RecognizedParams ==
    {trees_params(a) : a \in {b \in TreesArgs : b.ionization_mode \in RecognizedModes}}

\* C9: with an ionization mode that is none of auto, positive, negative the
\* flag is unset, the parameter list is one built for a recognized mode and
\* holds no ionization flag, no error other than the factory's is raised,
\* and once the tool is found the child is spawned.
C9_UnrecognizedMode ==
    \A t \in Threads :
        LET f == frames[t] IN
        (f.stage = "compute_fragmentation_trees"
           /\ Val(f.ionization_mode) \notin RecognizedModes) =>
            /\ IsNone(f.ionization_flag)
            /\ f.parameters \in RecognizedParams
            /\ ~HasToken(f.parameters, <<"--auto-charge">>)
            /\ ~HasToken(f.parameters, <<"--ion=[M-H]-">>)
            /\ ~IsNone(f.exc) =>
                 Val(f.exc).type \in {"OSError", "CalledProcessError"}
            /\ f.pc \in {"wait", "restore", "return"} =>
                 /\ f.nspawn = 1
                 /\ SubSeq(Val(f.child).cmd, 4, Len(Val(f.child).cmd))
                      \in RecognizedParams

\* a call with the mode "both" has spawned the tool and returned
C9_Witness ==
    \E t \in Threads :
        /\ frames[t].pc = "return"
        /\ frames[t].ionization_mode = Some(<<"both">>)
        /\ frames[t].nspawn = 1

\* C10: started with the variable not set, a call with flags F runs its
\* child with ' ' + F and returns with the variable set to ''; a call
\* without flags does not write the variable, which stays unset.
C10_UnsetNotPreserved ==
    \A t \in Threads :
        LET f == frames[t] IN
        (InFlight(t) /\ ~HasJavaOptions(f.env_entry)) =>
            IF HasFlags(f)
            THEN /\ ~IsNone(f.child) =>
                      Val(f.child).env = EnvSet(<<" ">> \o Val(f.java_flags))
                 /\ f.pc = "return" =>
                      HasJavaOptions(environ) /\ environ[JAVA_OPTIONS] = <<>>
            ELSE f.nwrites = 0 /\ ~HasJavaOptions(environ)

\* a call with flags started with the variable unset and has returned
C10_Witness ==
    \E t \in Threads :
        /\ frames[t].pc = "return"
        /\ HasFlags(frames[t])
        /\ ~HasJavaOptions(frames[t].env_entry)
        /\ environ = EnvSet(<<>>)

====
